---- MODULE Spec2Model ----
(***************************************************************************)
(* Model of the vimiv C extension: brightness/contrast and                 *)
(* hue/saturation/lightness enhancement of a packed 4-channel pixel        *)
(* buffer (src/c-extension).                                               *)
(*                                                                         *)
(* The C code computes in IEEE-754 binary32 (float) and, wherever a        *)
(* double literal such as 255. or 0.5 takes part, in binary64 (double).    *)
(* Both are modelled exactly: a value is a dyadic number                   *)
(* (-1)^neg * m * 2^e whose magnitude m is an arbitrary-precision natural, *)
(* and every C operator is the exact operation followed by rounding to     *)
(* nearest, ties to even, at 24 or 53 significant bits.  Every operator    *)
(* rounds on its own: a build that fuses a product and a sum into one      *)
(* rounding is not modelled.                                               *)
(***************************************************************************)
EXTENDS Integers, Sequences, FiniteSets, TLC

(***************************************************************************)
(* Arbitrary-precision naturals: little-endian sequences of limbs in       *)
(* 0..LimbBase-1 without leading zero limbs; <<>> is zero.  TLC integers   *)
(* are 32 bits wide, a product of two limbs stays below 2^30.              *)
(***************************************************************************)
LimbBits == 15
LimbBase == 2 ^ LimbBits

\* TLC evaluates the arguments of an operator only when they are first used,
\* which nests the evaluation of a chain of assignments as deep as the chain is
\* long.  Strict(v, e) is e, with v evaluated before it, as a C statement's
\* value is there before the next statement runs.
Strict(v, e) == IF v = v THEN e ELSE e

\* the element of a one-element set: { e(x) : x \in {v} } evaluates v once and
\* names its value x, as a C statement assigns a local
Only(S) == CHOOSE x \in S : TRUE

Limb(a, i) == IF i <= Len(a) THEN a[i] ELSE 0

RECURSIVE BNorm(_)
BNorm(a) ==
    IF a = <<>> THEN <<>>
    ELSE IF a[Len(a)] = 0 THEN BNorm(SubSeq(a, 1, Len(a) - 1))
    ELSE a

RECURSIVE BAddR(_, _, _, _)
BAddR(a, b, i, c) ==
    IF i > Len(a) /\ i > Len(b)
    THEN (IF c = 0 THEN <<>> ELSE <<c>>)
    ELSE LET s == Limb(a, i) + Limb(b, i) + c
         IN  <<s % LimbBase>> \o BAddR(a, b, i + 1, s \div LimbBase)

BAdd(a, b) == BAddR(a, b, 1, 0)

\* a - b for a >= b
RECURSIVE BSubR(_, _, _, _)
BSubR(a, b, i, c) ==
    IF i > Len(a) THEN <<>>
    ELSE LET s == a[i] - Limb(b, i) - c
         IN  IF s < 0 THEN <<s + LimbBase>> \o BSubR(a, b, i + 1, 1)
             ELSE <<s>> \o BSubR(a, b, i + 1, 0)

BSub(a, b) == BNorm(BSubR(a, b, 1, 0))

\* -1, 0, 1 as a < b, a = b, a > b, comparing from limb i downwards
RECURSIVE BCmpR(_, _, _)
BCmpR(a, b, i) ==
    IF i = 0 THEN 0
    ELSE IF a[i] < b[i] THEN -1
    ELSE IF a[i] > b[i] THEN 1
    ELSE BCmpR(a, b, i - 1)

BCmp(a, b) ==
    IF Len(a) < Len(b) THEN -1
    ELSE IF Len(a) > Len(b) THEN 1
    ELSE BCmpR(a, b, Len(a))

\* a * k for a limb-sized k
RECURSIVE BMulSmallR(_, _, _, _)
BMulSmallR(a, k, i, c) ==
    IF i > Len(a) THEN (IF c = 0 THEN <<>> ELSE <<c>>)
    ELSE LET s == a[i] * k + c
         IN  <<s % LimbBase>> \o BMulSmallR(a, k, i + 1, s \div LimbBase)

BMulSmall(a, k) == IF k = 0 THEN <<>> ELSE BMulSmallR(a, k, 1, 0)

ZeroLimbs(n) == [i \in 1..n |-> 0]

RECURSIVE BMulR(_, _, _)
BMulR(a, b, j) ==
    IF j > Len(b) THEN <<>>
    ELSE BAdd(IF b[j] = 0 THEN <<>> ELSE ZeroLimbs(j - 1) \o BMulSmall(a, b[j]),
              BMulR(a, b, j + 1))

BMul(a, b) == IF a = <<>> \/ b = <<>> THEN <<>> ELSE BMulR(a, b, 1)

\* a * 2^n
BShl(a, n) ==
    IF a = <<>> THEN <<>>
    ELSE ZeroLimbs(n \div LimbBits) \o BMulSmall(a, 2 ^ (n % LimbBits))

\* floor(a / 2^n)
BShr(a, n) ==
    LET q == n \div LimbBits
        r == n % LimbBits
        d == 2 ^ r
        u == 2 ^ (LimbBits - r)
    IN  IF q >= Len(a) THEN <<>>
        ELSE BNorm([i \in 1..(Len(a) - q) |->
                      (a[i + q] \div d) + (Limb(a, i + q + 1) % d) * u])

RECURSIVE BitLenSmall(_)
BitLenSmall(k) == IF k = 0 THEN 0 ELSE 1 + BitLenSmall(k \div 2)

BBitLen(a) ==
    IF a = <<>> THEN 0 ELSE LimbBits * (Len(a) - 1) + BitLenSmall(a[Len(a)])

BOdd(a) == a # <<>> /\ a[1] % 2 = 1

BFromInt(k) ==
    BNorm(<<k % LimbBase, (k \div LimbBase) % LimbBase, k \div (LimbBase * LimbBase)>>)

\* value of a natural below 2^30
BToInt(a) == Limb(a, 1) + LimbBase * Limb(a, 2)

\* Schoolbook long division (Knuth's algorithm D) of the limbs of n from limb
\* i upwards by d, whose top limb is at least LimbBase / 2: the quotient limb
\* estimated from the two top limbs of the running remainder is at most 2
\* too large.  <<quotient, remainder>>
RECURSIVE BDivLimbs(_, _, _)
BDivLimbs(n, d, i) ==
    IF i > Len(n) THEN <<(<<>>), (<<>>)>>
    ELSE Only({ Only({ Only({ Only({
             <<BNorm(<<qd>> \o hi[1]), BSub(rem, BMulSmall(d, qd))>> :
             qd \in { IF BCmp(BMulSmall(d, q0), rem) <= 0 THEN q0
                      ELSE IF BCmp(BMulSmall(d, q0 - 1), rem) <= 0 THEN q0 - 1
                      ELSE q0 - 2 } }) :
             q0 \in { IF (Limb(rem, Len(d) + 1) * LimbBase + Limb(rem, Len(d)))
                             \div d[Len(d)] > LimbBase - 1
                      THEN LimbBase - 1
                      ELSE (Limb(rem, Len(d) + 1) * LimbBase + Limb(rem, Len(d)))
                             \div d[Len(d)] } }) :
             rem \in { BNorm(<<n[i]>> \o hi[2]) } }) :
             hi \in { BDivLimbs(n, d, i + 1) } })

\* <<floor(n / d), r>> for d # 0, where r = 0 exactly when d divides n
BDivMod(n, d) ==
    LET s == LimbBits - BitLenSmall(d[Len(d)])
    IN  BDivLimbs(BShl(n, s), BShl(d, s), 1)

(***************************************************************************)
(* Dyadic numbers [neg, m, e] = (-1)^neg * m * 2^e.  Zero has m = <<>>     *)
(* and neg = FALSE (the sign of a zero decides nothing in this code: it    *)
(* only compares, truncates and adds).                                     *)
(***************************************************************************)
Num(neg, m, e) == [neg |-> neg /\ m # <<>>, m |-> m, e |-> IF m = <<>> THEN 0 ELSE e]

\* k * 2^e for an integer |k| < 2^30
Dy(k, e) == Num(k < 0, BFromInt(IF k < 0 THEN -k ELSE k), e)

FromInt(k) == Dy(k, 0)

IsZero(x) == x.m = <<>>

NNeg(x) == Num(~x.neg, x.m, x.e)

MinE(x, y) ==
    IF IsZero(x) THEN y.e ELSE IF IsZero(y) THEN x.e
    ELSE IF x.e < y.e THEN x.e ELSE y.e

\* magnitude of x scaled to exponent e <= x.e
MagAt(x, e) == IF IsZero(x) THEN <<>> ELSE BShl(x.m, x.e - e)

\* -1, 0, 1 as x < y, x = y, x > y
NCmp(x, y) ==
    IF x.neg /\ ~y.neg THEN -1
    ELSE IF ~x.neg /\ y.neg THEN 1
    ELSE Only({ IF x.neg THEN -c ELSE c :
                c \in { Only({ BCmp(MagAt(x, e), MagAt(y, e)) :
                               e \in { MinE(x, y) } }) } })

NLt(x, y) == NCmp(x, y) < 0
NGt(x, y) == NCmp(x, y) > 0
NLe(x, y) == NCmp(x, y) <= 0
NGe(x, y) == NCmp(x, y) >= 0
NEq(x, y) == NCmp(x, y) = 0

\* exact sum
NAdd(x, y) ==
    IF IsZero(x) THEN y
    ELSE IF IsZero(y) THEN x
    ELSE Only({ Only({
             IF x.neg = y.neg THEN Num(x.neg, BAdd(mx, my), e)
             ELSE IF BCmp(mx, my) >= 0 THEN Num(x.neg, BSub(mx, my), e)
             ELSE Num(y.neg, BSub(my, mx), e) :
             mx \in { MagAt(x, e) }, my \in { MagAt(y, e) } }) :
             e \in { MinE(x, y) } })

NSub(x, y) == IF IsZero(y) THEN x ELSE NAdd(x, NNeg(y))

\* exact product
NMul(x, y) ==
    IF IsZero(x) THEN x
    ELSE IF IsZero(y) THEN y
    ELSE Num(x.neg # y.neg, BMul(x.m, y.m), x.e + y.e)

\* round to nearest, ties to even, at p significant bits
Rnd(x, p) ==
    IF IsZero(x) \/ BBitLen(x.m) <= p THEN x
    ELSE Only({ Only({ Only({
             Num(x.neg,
                 IF c > 0 \/ (c = 0 /\ BOdd(q)) THEN BAdd(q, <<1>>) ELSE q,
                 x.e + sh) :
             c \in { BCmp(BSub(x.m, BShl(q, sh)), BShl(<<1>>, sh - 1)) } }) :
             q \in { BShr(x.m, sh) } }) :
             sh \in { BBitLen(x.m) - p } })

\* x / y (y # 0) rounded at p significant bits: a quotient of at least p + 2
\* bits, followed by a sticky bit for a nonzero remainder
NDiv(x, y, p) ==
    IF IsZero(x) THEN x
    ELSE Only({ Only({
             Rnd(Num(x.neg # y.neg,
                     BAdd(BMulSmall(qr[1], 2),
                          IF qr[2] = <<>> THEN <<>> ELSE <<1>>),
                     x.e - y.e - k - 1), p) :
             qr \in { BDivMod(BShl(x.m, k), y.m) } }) :
             k \in { IF p + 2 + BBitLen(y.m) - BBitLen(x.m) > 0
                     THEN p + 2 + BBitLen(y.m) - BBitLen(x.m)
                     ELSE 0 } })

\* the integer part of x (C conversion to an integer type truncates), |x| < 2^30
Trunc(x) ==
    LET a == IF x.e >= 0 THEN BShl(x.m, x.e) ELSE BShr(x.m, -x.e)
    IN  IF x.neg THEN -BToInt(a) ELSE BToInt(a)

(***************************************************************************)
(* C arithmetic.  FloatBits and DoubleBits are the significand widths of   *)
(* float and double; an operation on two floats is done in float, an       *)
(* operation with a double operand in double.  The model's values stay     *)
(* far from the exponent limits, overflow and subnormals do not arise.     *)
(***************************************************************************)
FloatBits == 24
DoubleBits == 53

\* a C operator has the values of its operands before it is applied
Op2(x, y, r) == Strict(x, Strict(y, r))

to_float(x) == Strict(x, Rnd(x, FloatBits))

fadd(x, y) == Op2(x, y, Rnd(NAdd(x, y), FloatBits))
fsub(x, y) == Op2(x, y, Rnd(NSub(x, y), FloatBits))
fmul(x, y) == Op2(x, y, Rnd(NMul(x, y), FloatBits))
fdiv(x, y) == Op2(x, y, NDiv(x, y, FloatBits))

dadd(x, y) == Op2(x, y, Rnd(NAdd(x, y), DoubleBits))
dsub(x, y) == Op2(x, y, Rnd(NSub(x, y), DoubleBits))
dmul(x, y) == Op2(x, y, Rnd(NMul(x, y), DoubleBits))
ddiv(x, y) == Op2(x, y, NDiv(x, y, DoubleBits))


(***************************************************************************)
(* The build: definitions.h fixes the channel offsets from the byte order  *)
(* of the host the extension is compiled for.                              *)
(***************************************************************************)
VARIABLE byte_order

ByteOrders == {"G_LITTLE_ENDIAN", "G_BIG_ENDIAN", "G_PDP_ENDIAN"}

ALPHA_CHANNEL ==
    IF byte_order = "G_LITTLE_ENDIAN" THEN 3
    ELSE IF byte_order = "G_BIG_ENDIAN" THEN 0 ELSE 1

R_CHANNEL ==
    IF byte_order = "G_LITTLE_ENDIAN" THEN 2
    ELSE IF byte_order = "G_BIG_ENDIAN" THEN 1 ELSE 0

G_CHANNEL ==
    IF byte_order = "G_LITTLE_ENDIAN" THEN 1
    ELSE IF byte_order = "G_BIG_ENDIAN" THEN 2 ELSE 2

B_CHANNEL ==
    IF byte_order = "G_LITTLE_ENDIAN" THEN 0
    ELSE IF byte_order = "G_BIG_ENDIAN" THEN 3 ELSE 3

(***************************************************************************)
(* helper_func.h                                                           *)
(***************************************************************************)
min2(a, b) == IF NLt(a, b) THEN a ELSE b

max2(a, b) == IF NGt(a, b) THEN a ELSE b

min3(a, b, c) ==
    IF NLe(a, b) /\ NLe(a, c) THEN a
    ELSE IF NLe(b, c) THEN b
    ELSE c

max3(a, b, c) ==
    IF NGe(a, b) /\ NGe(a, c) THEN a
    ELSE IF NGe(b, c) THEN b
    ELSE c

clamp(value, lower, upper) ==
    IF NLt(value, lower) THEN lower
    ELSE IF NGt(value, upper) THEN upper
    ELSE value

remainder_fl(dividend, divisor) ==
    LET intdiv == Trunc(fdiv(dividend, divisor))
    IN  Strict(intdiv, fsub(dividend, fmul(FromInt(intdiv), divisor)))

\* defect variant of pixel_value: the conversion applied to the clamped value
\* before the scaling, as (U_CHAR) clamp(value, 0, 1) * 255 would
pixel_value_cast_first(value) ==
    Trunc(clamp(value, FromInt(0), FromInt(1))) * 255

pixel_value(value) ==
    Trunc(clamp(fmul(value, FromInt(255)), FromInt(0), FromInt(255)))

(***************************************************************************)
(* math_func_eval.h is not among the sources: the table of 255 tangents    *)
(* TAN[i] = tan(i/127 * pi/4) as floats, each entry <<k, e>> = k * 2^e.    *)
(***************************************************************************)
TAN ==
  <<
    <<0, 0>>, <<6640359, -30>>, <<6640613, -29>>, <<9961555, -29>>, <<6641629, -28>>,
    <<16605979, -29>>, <<9964985, -28>>, <<11627745, -28>>, <<13291395, -28>>, <<14956065, -28>>,
    <<8310941, -27>>, <<9144487, -27>>, <<9978737, -27>>, <<5406877, -26>>, <<11649603, -27>>,
    <<12486351, -27>>, <<13324061, -27>>, <<14162801, -27>>, <<3750659, -25>>, <<15843633, -27>>,
    <<16685859, -27>>, <<8764691, -26>>, <<4593567, -25>>, <<2402573, -24>>, <<10034201, -26>>,
    <<10458895, -26>>, <<1360551, -23>>, <<1413847, -23>>, <<11738033, -26>>, <<1520777, -23>>,
    <<12595359, -26>>, <<13025501, -26>>, <<3364169, -24>>, <<6944461, -25>>, <<14322275, -26>>,
    <<7378387, -25>>, <<15192457, -26>>, <<15629361, -26>>, <<8033763, -25>>, <<8253495, -25>>,
    <<1059237, -22>>, <<8694987, -25>>, <<2229197, -23>>, <<9139319, -25>>, <<9362601, -25>>,
    <<9586655, -25>>, <<4905751, -24>>, <<2509291, -23>>, <<5131831, -24>>, <<10491019, -25>>,
    <<1339907, -22>>, <<10948397, -25>>, <<11178465, -25>>, <<11409483, -25>>, <<11641475, -25>>,
    <<371077, -20>>, <<12108475, -25>>, <<12343533, -25>>, <<12579663, -25>>, <<6408445, -24>>,
    <<13055241, -25>>, <<6647371, -24>>, <<13535419, -25>>, <<3444325, -23>>, <<14020413, -25>>,
    <<14264785, -25>>, <<7255223, -24>>, <<922339, -21>>, <<15005749, -25>>, <<3813863, -23>>,
    <<15506563, -25>>, <<15759113, -25>>, <<16013135, -25>>, <<4067165, -23>>, <<8262861, -24>>,
    <<4196089, -23>>, <<8522297, -24>>, <<2163309, -22>>, <<8785013, -24>>, <<8917647, -24>>,
    <<9051155, -24>>, <<9185557, -24>>, <<9320873, -24>>, <<9457121, -24>>, <<9594323, -24>>,
    <<4866249, -23>>, <<9871669, -24>>, <<625741, -20>>, <<5076541, -23>>, <<1286921, -21>>,
    <<10438739, -24>>, <<10583217, -24>>, <<2682207, -22>>, <<5437797, -23>>, <<5511771, -23>>,
    <<11172697, -24>>, <<5661543, -23>>, <<11474735, -24>>, <<11627673, -24>>, <<11781927, -24>>,
    <<11937527, -24>>, <<12094503, -24>>, <<3063221, -22>>, <<12412703, -24>>, <<12573991, -24>>,
    <<12736781, -24>>, <<6450553, -23>>, <<6533501, -23>>, <<1654313, -21>>, <<13403649, -24>>,
    <<13574473, -24>>, <<13747015, -24>>, <<6960657, -23>>, <<3524353, -22>>, <<7137675, -23>>,
    <<7227585, -23>>, <<3659229, -22>>, <<14820635, -24>>, <<3751593, -22>>, <<15194175, -24>>,
    <<15384093, -24>>, <<7788089, -23>>, <<7885241, -23>>, <<15967057, -24>>, <<16165961, -24>>,
    <<16367249, -24>>, <<4142745, -22>>, <<1, 0>>, <<8493009, -23>>, <<4299363, -22>>,
    <<34007, -15>>, <<8814241, -23>>, <<2231027, -21>>, <<9035431, -23>>, <<9148247, -23>>,
    <<9262595, -23>>, <<9378515, -23>>, <<4748025, -22>>, <<4807621, -22>>, <<9736135, -23>>,
    <<9858777, -23>>, <<4991607, -22>>, <<10109497, -23>>, <<2559419, -21>>, <<10367805, -23>>,
    <<10499939, -23>>, <<5317067, -22>>, <<10770449, -23>>, <<10908947, -23>>, <<11049691, -23>>,
    <<5596373, -22>>, <<5669091, -22>>, <<5743035, -22>>, <<2909121, -21>>, <<11789501, -23>>,
    <<11945201, -23>>, <<3025917, -21>>, <<3066247, -21>>, <<3107313, -21>>, <<12596555, -23>>,
    <<6383497, -22>>, <<101099, -16>>, <<13117695, -23>>, <<25973, -14>>, <<13482231, -23>>,
    <<13669981, -23>>, <<6930777, -22>>, <<14057083, -23>>, <<14256707, -23>>, <<3615143, -21>>,
    <<7334415, -22>>, <<7440821, -22>>, <<15099175, -23>>, <<7660803, -22>>, <<15549119, -23>>,
    <<15781909, -23>>, <<16020179, -23>>, <<16264145, -23>>, <<16514033, -23>>, <<524065, -18>>,
    <<2129067, -20>>, <<8650835, -22>>, <<4394439, -21>>, <<4465273, -21>>, <<9075995, -22>>,
    <<4612695, -21>>, <<9378905, -22>>, <<9536725, -22>>, <<9699047, -22>>, <<4933039, -21>>,
    <<5019021, -21>>, <<2553793, -20>>, <<10397719, -22>>, <<10585951, -22>>, <<1347519, -19>>,
    <<10980627, -22>>, <<11187699, -22>>, <<11401719, -22>>, <<726441, -18>>, <<11852113, -22>>,
    <<6044659, -21>>, <<12335133, -22>>, <<12590055, -22>>, <<3213655, -20>>, <<205147, -16>>,
    <<13415045, -22>>, <<6856105, -21>>, <<14021639, -22>>, <<14344133, -22>>, <<14680563, -22>>,
    <<15031879, -22>>, <<7699561, -21>>, <<15783429, -22>>, <<16186049, -22>>, <<4152089, -20>>,
    <<8525933, -21>>, <<4379563, -20>>, <<4502343, -20>>, <<4631821, -20>>, <<1192143, -18>>,
    <<2456619, -19>>, <<10133075, -21>>, <<10458563, -21>>, <<5402383, -20>>, <<11173757, -21>>,
    <<5783947, -20>>, <<5994935, -20>>, <<3110695, -19>>, <<808137, -17>>, <<1682031, -18>>,
    <<14025779, -21>>, <<7322227, -20>>, <<15318977, -21>>, <<16057325, -21>>, <<1054317, -17>>,
    <<8882905, -20>>, <<9380851, -20>>, <<4968561, -19>>, <<10562657, -20>>, <<11271307, -20>>,
    <<12080883, -20>>, <<13014675, -20>>, <<7051869, -19>>, <<7695209, -19>>, <<8467001, -19>>,
    <<4705031, -18>>, <<10588617, -19>>, <<12103593, -19>>, <<14123201, -19>>, <<8475109, -18>>,
    <<10595103, -18>>, <<14128065, -18>>, <<2649181, -15>>, <<10597129, -16>>, <<3802413, 32>>
  >>

TanEntries == Len(TAN)

(***************************************************************************)
(* brightness_contrast.h                                                   *)
(***************************************************************************)
\* memory behind the table, as a read of TAN[255] finds it
VARIABLE tan_end

enhance_brightness(value, factor) ==
    IF NLt(factor, FromInt(0))
    THEN fmul(value, fadd(FromInt(1), factor))
    ELSE fadd(value, fmul(fsub(FromInt(1), value), factor))

\* defect variant of tan_pos: the middle of the table taken to be 128
tan_pos_128(factor) == Trunc(fadd(fmul(factor, FromInt(127)), FromInt(128)))

\* defect variant of tan_pos: rounds to the nearest index
tan_pos_nearest(factor) ==
    Trunc(fadd(fadd(fmul(factor, FromInt(127)), FromInt(127)), Dy(1, -1)))

\* U_CHAR tan_pos = (U_CHAR) (factor * 127 + 127)
tan_pos(factor) == Trunc(fadd(fmul(factor, FromInt(127)), FromInt(127)))

TanRead(i) == IF i < TanEntries THEN Dy(TAN[i + 1][1], TAN[i + 1][2]) ELSE tan_end

enhance_contrast(value, factor) ==
    to_float(dadd(dmul(dsub(value, Dy(1, -1)), TanRead(tan_pos(factor))), Dy(1, -1)))

\* ((float) data[pixel]) / 255.
channel_value(byte) == to_float(ddiv(FromInt(byte), FromInt(255)))

(***************************************************************************)
(* A buffer in memory is [mem, acc]: mem the bytes, byte i of the C array  *)
(* at mem[i + 1], and acc the set of C indices read or written so far.     *)
(***************************************************************************)
Memory(bytes) == [mem |-> bytes, acc |-> {}]

\* defect variant of bc_step: the alpha byte is transformed like a colour byte
bc_step_every_byte(data, pixel, brightness, contrast) ==
    Only({ Only({ Only({
             [mem |-> [data.mem EXCEPT ![pixel + 1] = pixel_value(v2)],
              acc |-> data.acc \cup {pixel}] :
             v2 \in { enhance_contrast(v1, contrast) } }) :
             v1 \in { enhance_brightness(v0, brightness) } }) :
             v0 \in { channel_value(data.mem[pixel + 1]) } })

\* defect variant of bc_step: contrast is applied before brightness
bc_step_contrast_first(data, pixel, brightness, contrast) ==
    IF pixel % 4 # ALPHA_CHANNEL
    THEN Only({ Only({ Only({
             [mem |-> [data.mem EXCEPT ![pixel + 1] = pixel_value(v2)],
              acc |-> data.acc \cup {pixel}] :
             v2 \in { enhance_brightness(v1, brightness) } }) :
             v1 \in { enhance_contrast(v0, contrast) } }) :
             v0 \in { channel_value(data.mem[pixel + 1]) } })
    ELSE data

\* the body of the loop of enhance_bc_c for one index
bc_step(data, pixel, brightness, contrast) ==
    IF pixel % 4 # ALPHA_CHANNEL
    THEN Only({ Only({ Only({
             [mem |-> [data.mem EXCEPT ![pixel + 1] = pixel_value(v2)],
              acc |-> data.acc \cup {pixel}] :
             v2 \in { enhance_contrast(v1, contrast) } }) :
             v1 \in { enhance_brightness(v0, brightness) } }) :
             v0 \in { channel_value(data.mem[pixel + 1]) } })
    ELSE data

RECURSIVE bc_loop(_, _, _, _, _)
bc_loop(data, size, pixel, brightness, contrast) ==
    IF pixel < size
    THEN LET next == bc_step(data, pixel, brightness, contrast)
         IN  Strict(next, bc_loop(next, size, pixel + 1, brightness, contrast))
    ELSE data

enhance_bc_c(data, size, brightness, contrast) ==
    bc_loop(data, size, 0, brightness, contrast)

(***************************************************************************)
(* manipulate.c: its own copies of the curves and of the loop, with clamp  *)
(* as the quantizer, and the Python entry point.                           *)
(***************************************************************************)
manipulate_clamp(value) ==
    IF NLt(value, FromInt(0)) THEN 0
    ELSE IF NGt(value, FromInt(1)) THEN 255
    ELSE Trunc(fmul(value, FromInt(255)))

manipulate_enhance_brightness(value, factor) ==
    IF NLt(factor, FromInt(0))
    THEN fmul(value, fadd(FromInt(1), factor))
    ELSE fadd(value, fmul(fsub(FromInt(1), value), factor))

manipulate_enhance_contrast(value, factor) ==
    to_float(dadd(dmul(dsub(value, Dy(1, -1)), TanRead(tan_pos(factor))), Dy(1, -1)))

manipulate_bc_step(data, pixel, brightness, contrast) ==
    IF pixel % 4 # ALPHA_CHANNEL
    THEN Only({ Only({ Only({
             [mem |-> [data.mem EXCEPT ![pixel + 1] = manipulate_clamp(v2)],
              acc |-> data.acc \cup {pixel}] :
             v2 \in { manipulate_enhance_contrast(v1, contrast) } }) :
             v1 \in { manipulate_enhance_brightness(v0, brightness) } }) :
             v0 \in { channel_value(data.mem[pixel + 1]) } })
    ELSE data

RECURSIVE manipulate_bc_loop(_, _, _, _, _)
manipulate_bc_loop(data, size, pixel, brightness, contrast) ==
    IF pixel < size
    THEN LET next == manipulate_bc_step(data, pixel, brightness, contrast)
         IN  Strict(next, manipulate_bc_loop(next, size, pixel + 1, brightness,
                                             contrast))
    ELSE data

manipulate_enhance_bc_c(data, size, brightness, contrast) ==
    manipulate_bc_loop(data, size, 0, brightness, contrast)

\* manipulate_bc: a py_data that is no bytes object raises TypeError; else the
\* bytes are enhanced in place over PyBytes_Size(py_data) and returned
manipulate_bc(is_bytes, py_data, brightness, contrast) ==
    IF ~is_bytes
    THEN [ret |-> "TypeError", data |-> Memory(py_data)]
    ELSE [ret  |-> "bytes",
          data |-> manipulate_enhance_bc_c(Memory(py_data), Len(py_data),
                                           brightness, contrast)]

(***************************************************************************)
(* hue_saturation_lightness.h                                              *)
(***************************************************************************)
\* defect variant of enhance_hue: a hue below 0 is not wrapped
enhance_hue_no_lower_wrap(hue, v) ==
    LET h == fadd(hue, v)
    IN  IF NGt(h, FromInt(360)) THEN fsub(h, FromInt(360)) ELSE h

enhance_hue(hue, v) ==
    LET h == fadd(hue, v)
    IN  IF NGt(h, FromInt(360)) THEN fsub(h, FromInt(360))
        ELSE IF NLt(h, FromInt(0)) THEN fadd(h, FromInt(360))
        ELSE h

enhance_saturation(saturation, v) ==
    clamp(fmul(saturation, fadd(v, FromInt(1))), FromInt(0), FromInt(1))

enhance_lightness(lightness, v) ==
    IF NLt(v, FromInt(0))
    THEN to_float(dmul(lightness, dadd(v, FromInt(1))))
    ELSE to_float(dadd(lightness, dmul(v, dsub(FromInt(1), lightness))))

\* the hue of rgb_to_hsl, from the channels and their extremes
rgb_hue(r, g, b, MIN, MAX) ==
    Only({ IF NLt(h, FromInt(0)) THEN fadd(h, FromInt(360)) ELSE h :
           h \in { IF NEq(MIN, MAX) THEN FromInt(0)
                   ELSE IF NEq(MAX, r)
                   THEN fdiv(fmul(FromInt(60), fsub(g, b)), fsub(MAX, MIN))
                   ELSE IF NEq(MAX, g)
                   THEN fmul(FromInt(60),
                             fadd(FromInt(2), fdiv(fsub(b, r), fsub(MAX, MIN))))
                   ELSE fmul(FromInt(60),
                             fadd(FromInt(4), fdiv(fsub(r, g), fsub(MAX, MIN)))) } })

\* the saturation of rgb_to_hsl, from the extremes and the lightness
rgb_saturation(MIN, MAX, l) ==
    IF NEq(MAX, FromInt(0)) \/ NEq(MIN, FromInt(1)) THEN FromInt(0)
    ELSE fdiv(fsub(MAX, l), min2(l, fsub(FromInt(1), l)))

rgb_to_hsl(r, g, b) ==
    Only({ Only({ [h |-> rgb_hue(r, g, b, MIN, MAX),
                   s |-> rgb_saturation(MIN, MAX, l),
                   l |-> l] :
                  l \in { to_float(ddiv(fadd(MAX, MIN), FromInt(2))) } }) :
           MIN \in { min3(r, g, b) }, MAX \in { max3(r, g, b) } })

hsl_to_rgb_helper(a, n, h, l) ==
    Only({ fsub(l, fmul(a, max2(min3(fsub(k, FromInt(3)), fsub(FromInt(9), k),
                                     FromInt(1)),
                                FromInt(-1)))) :
           k \in { remainder_fl(to_float(dadd(n, ddiv(h, FromInt(30)))),
                                FromInt(12)) } })

\* defect variant of hsl_to_rgb: the offsets of green and blue exchanged
hsl_to_rgb_swapped(h, s, l) ==
    Only({ [r |-> hsl_to_rgb_helper(a, FromInt(0), h, l),
            g |-> hsl_to_rgb_helper(a, FromInt(4), h, l),
            b |-> hsl_to_rgb_helper(a, FromInt(8), h, l)] :
           a \in { fmul(s, min2(l, fsub(FromInt(1), l))) } })

hsl_to_rgb(h, s, l) ==
    Only({ [r |-> hsl_to_rgb_helper(a, FromInt(0), h, l),
            g |-> hsl_to_rgb_helper(a, FromInt(8), h, l),
            b |-> hsl_to_rgb_helper(a, FromInt(4), h, l)] :
           a \in { fmul(s, min2(l, fsub(FromInt(1), l))) } })

\* the pixel at index pixel with its colours replaced by r, g, b
set_pixel(data, pixel, r, g, b) ==
    [mem |-> [data.mem EXCEPT ![pixel + R_CHANNEL + 1] = r,
                              ![pixel + G_CHANNEL + 1] = g,
                              ![pixel + B_CHANNEL + 1] = b],
     acc |-> data.acc \cup {pixel + R_CHANNEL, pixel + G_CHANNEL,
                            pixel + B_CHANNEL}]

\* the body of the loop of enhance_hsl_c for the pixel at index pixel
hsl_step(data, pixel, hue, saturation, lightness) ==
    Only({ Only({ Only({ Only({
        set_pixel(data, pixel, pixel_value(rgb.r), pixel_value(rgb.g),
                  pixel_value(rgb.b)) :
        rgb \in { hsl_to_rgb(h, s, l) } }) :
        h \in { enhance_hue(hsl.h, hue) },
        s \in { enhance_saturation(hsl.s, saturation) },
        l \in { enhance_lightness(hsl.l, lightness) } }) :
        hsl \in { rgb_to_hsl(r, g, b) } }) :
        r \in { channel_value(data.mem[pixel + R_CHANNEL + 1]) },
        g \in { channel_value(data.mem[pixel + G_CHANNEL + 1]) },
        b \in { channel_value(data.mem[pixel + B_CHANNEL + 1]) } })

\* defect variant of hsl_loop: pixels taken to be 3 bytes wide
RECURSIVE hsl_loop_stride3(_, _, _, _, _, _)
hsl_loop_stride3(data, size, pixel, hue, saturation, lightness) ==
    IF pixel < size
    THEN Only({ hsl_loop_stride3(next, size, pixel + 3, hue, saturation,
                                 lightness) :
                next \in { hsl_step(data, pixel, hue, saturation, lightness) } })
    ELSE data

RECURSIVE hsl_loop(_, _, _, _, _, _)
hsl_loop(data, size, pixel, hue, saturation, lightness) ==
    IF pixel < size
    THEN Only({ hsl_loop(next, size, pixel + 4, hue, saturation, lightness) :
                next \in { hsl_step(data, pixel, hue, saturation, lightness) } })
    ELSE data

enhance_hsl_c(data, size, hue, saturation, lightness) ==
    hsl_loop(data, size, 0, hue, saturation, lightness)


(***************************************************************************)
(* State.                                                                  *)
(*   data     the pixel buffer the host owns                               *)
(*   first    the buffer before the first call                             *)
(*   old      the buffer before the last call                              *)
(*   call     the last call: the function and its factors                  *)
(*   ncalls   the number of calls made                                     *)
(*   touched  the C indices the last call read or wrote, from data[0]      *)
(*   tan_idx  the index the last call read TAN at, -1 if it read none      *)
(*   ret      what the last call handed back                               *)
(*   pending  the pixels a split transform has not reached yet             *)
(*   probe    a pure function, an input for it and its result              *)
(***************************************************************************)
VARIABLES data, first, old, call, ncalls, touched, tan_idx, ret, pending, probe

vars == <<byte_order, tan_end, data, first, old, call, ncalls, touched,
          tan_idx, ret, pending, probe>>

\* adjustment factors, as the floats PyArg_ParseTuple "f" yields
Zero == FromInt(0)
Half == Dy(1, -1)
F02 == Dy(13421773, -26)      \* 0.2f
F101 == Dy(4236247, -22)      \* 1.01f
F0005 == Dy(5368709, -30)     \* 0.005f

\* <<brightness, contrast>>: no adjustment, factors of the nominal range, and
\* factors beyond it
BCFactors ==
    { <<Zero, Zero>>, <<Dy(-1, -1), F02>>, <<Dy(3, -1), F101>> }

\* <<hue, saturation, lightness>>
HSLFactors ==
    { <<FromInt(180), Zero, Zero>>, <<FromInt(360), Half, Dy(-1, -2)>> }

\* what a read of TAN[255] can find behind the table
TanEnds == { Zero, Dy(-5, -1) }

\* what lies behind the buffer in memory: a bytes object ends in a NUL byte,
\* what follows it is not the object's
Tails == { <<0, 0, 0>>, <<0, 255, 64>> }

MaxCalls == 2
MaxPixels == 2

\* buffers of whole pixels and buffers with a trailing partial pixel
Buffers ==
    { <<10, 20, 30, 255>>,
      <<200, 100, 50, 7, 60>>,
      <<0, 255, 77, 1, 90, 90, 200, 254>>,
      <<1, 2, 3, 4, 5, 6, 7, 8, 9, 250, 251, 252>> }

InitBuffers == { b \in Buffers : Len(b) <= 4 * MaxPixels + 1 }

NoCall == [op |-> "none", args |-> <<>>]
NoProbe == [f |-> "none", in |-> <<>>, out |-> <<>>]

Init ==
    /\ byte_order \in ByteOrders
    /\ tan_end \in TanEnds
    /\ data \in InitBuffers
    /\ first = data
    /\ old = data
    /\ call = NoCall
    /\ ncalls = 0
    /\ touched = {}
    /\ tan_idx = -1
    /\ ret = "none"
    /\ pending = {}
    /\ probe = NoProbe

\* the index enhance_contrast reads TAN at, for a loop that reached a colour byte
TanIndexRead(acc, contrast) == IF acc = {} THEN -1 ELSE tan_pos(contrast)

\* enhance_bc_c of brightness_contrast.h on the whole buffer
EnhanceBC(brightness, contrast) ==
    /\ ncalls < MaxCalls
    /\ LET r == enhance_bc_c(Memory(data), Len(data), brightness, contrast)
       IN  /\ data' = r.mem
           /\ touched' = r.acc
           /\ tan_idx' = TanIndexRead(r.acc, contrast)
    /\ old' = data
    /\ call' = [op |-> "enhance_bc_c", args |-> <<brightness, contrast>>]
    /\ ncalls' = ncalls + 1
    /\ ret' = "void"
    /\ UNCHANGED <<byte_order, tan_end, first, pending, probe>>

\* manipulate_bc of manipulate.c, the Python entry point
ManipulateBC(is_bytes, brightness, contrast) ==
    /\ ncalls < MaxCalls
    /\ LET r == manipulate_bc(is_bytes, data, brightness, contrast)
       IN  /\ data' = r.data.mem
           /\ touched' = r.data.acc
           /\ tan_idx' = TanIndexRead(r.data.acc, contrast)
           /\ ret' = r.ret
    /\ old' = data
    /\ call' = [op |-> "manipulate_bc", args |-> <<brightness, contrast>>]
    /\ ncalls' = ncalls + 1
    /\ UNCHANGED <<byte_order, tan_end, first, pending, probe>>

\* enhance_hsl_c on the whole buffer; tail is the memory behind the buffer
EnhanceHSL(hue, saturation, lightness, tail) ==
    /\ ncalls < MaxCalls
    /\ LET r == enhance_hsl_c(Memory(data \o tail), Len(data), hue,
                              saturation, lightness)
       IN  /\ data' = SubSeq(r.mem, 1, Len(data))
           /\ touched' = r.acc
    /\ tan_idx' = -1
    /\ old' = data
    /\ call' = [op |-> "enhance_hsl_c", args |-> <<hue, saturation, lightness>>]
    /\ ncalls' = ncalls + 1
    /\ ret' = "void"
    /\ UNCHANGED <<byte_order, tan_end, first, pending, probe>>

Next ==
    \/ \E f \in BCFactors : EnhanceBC(f[1], f[2])
    \/ \E f \in BCFactors : ManipulateBC(TRUE, f[1], f[2])
    \/ \E f \in BCFactors : ManipulateBC(FALSE, f[1], f[2])
    \/ \E f \in HSLFactors, tail \in Tails : EnhanceHSL(f[1], f[2], f[3], tail)

Spec == Init /\ [][Next]_vars

(***************************************************************************)
(* Properties of the calls on a buffer.                                    *)
(***************************************************************************)
AlphaIndices(n) == { i \in 0..(n - 1) : i % 4 = ALPHA_CHANNEL }
ColourIndices(n) == (0..(n - 1)) \ AlphaIndices(n)

\* C1: after any sequence of brightness/contrast and hue/saturation/lightness
\* calls on a buffer whose length is a multiple of 4, every alpha byte has
\* the value it had before the first call, and a hue/saturation/lightness
\* call accesses no alpha byte.
C1_AlphaPreserved ==
    Len(data) % 4 = 0 =>
        /\ \A i \in AlphaIndices(Len(data)) : data[i + 1] = first[i + 1]
        /\ call.op = "enhance_hsl_c" => touched \cap AlphaIndices(Len(data)) = {}

\* two calls, the last one a hue/saturation/lightness call, changed the
\* colours of a two-pixel buffer
C1_Witness ==
    /\ Len(data) = 8
    /\ ncalls >= 2
    /\ call.op = "enhance_hsl_c"
    /\ touched # {}
    /\ data # first
    /\ data # old

\* C2: a call on a buffer whose length is not a multiple of 4 reports
\* InvalidInput, leaves every byte as it was, and accesses no index at or
\* beyond the length.
C2_InvalidLengthRejected ==
    (Len(data) % 4 # 0 /\ call.op \in {"manipulate_bc", "enhance_hsl_c"}
                       /\ ret # "TypeError") =>
        /\ ret = "InvalidInput"
        /\ data = old
        /\ \A i \in touched : i < Len(data)

\* the value the loop of brightness_contrast.h leaves for a byte
BCByte(byte, brightness, contrast) ==
    pixel_value(enhance_contrast(
        enhance_brightness(channel_value(byte), brightness), contrast))

\* the value the loop of manipulate.c leaves for a byte
ManipulateBCByte(byte, brightness, contrast) ==
    manipulate_clamp(manipulate_enhance_contrast(
        manipulate_enhance_brightness(channel_value(byte), brightness), contrast))

\* C3: after one brightness/contrast call every non-alpha byte holds the
\* quantized contrast curve of the brightness curve of that same byte's
\* normalized old value, whatever the other bytes are.
C3_BrightnessThenContrast ==
    /\ call.op = "enhance_bc_c" =>
           \A i \in ColourIndices(Len(data)) :
               data[i + 1] = BCByte(old[i + 1], call.args[1], call.args[2])
    /\ (call.op = "manipulate_bc" /\ ret = "bytes") =>
           \A i \in ColourIndices(Len(data)) :
               data[i + 1] = ManipulateBCByte(old[i + 1], call.args[1], call.args[2])

\* a call with non-zero brightness and contrast, its table index inside the
\* table, changed the buffer
C3_Witness ==
    /\ call.op \in {"enhance_bc_c", "manipulate_bc"}
    /\ ret \in {"void", "bytes"}
    /\ tan_idx \in 0..(TanEntries - 1)
    /\ ~IsZero(call.args[1])
    /\ ~IsZero(call.args[2])
    /\ \E i \in ColourIndices(Len(data)) : data[i + 1] # old[i + 1]

\* C6: whatever the factors, a brightness/contrast call completes and reads
\* the tangent table only at the indices 0..254 of its 255 entries.
C6_TanIndexInTable ==
    (call.op \in {"enhance_bc_c", "manipulate_bc"} /\ ret # "TypeError") =>
        /\ ret \in {"void", "bytes"}
        /\ touched = ColourIndices(Len(data))
        /\ tan_idx \in 0..(TanEntries - 1)

(***************************************************************************)
(* The functions on their own: a probe is a function, an input drawn by    *)
(* the initial state, and the result once the function was applied.        *)
(***************************************************************************)
MaxLevel == 4
GridBits == 6

Bytes == 0..255

\* channel bytes spread over the whole range
Levels == { (255 * k) \div MaxLevel : k \in 0..MaxLevel }

\* floats of [0, 1] that are no normalized byte
SmallValues ==
    { Dy(1, -60), Dy(8388609, -56), Dy(7, -36), Dy(1, -31), Dy(5033165, -24),
      Dy(16777215, -24) }

\* hues of [0, 360): the ends, hues near the ends and hues between
HueValues ==
    { Zero, Dy(1, -20), FromInt(10), FromInt(180), Dy(11793203, -15),
      Dy(11796479, -15) }

\* hue adjustments of [-360, 360]
HueDeltas ==
    { FromInt(-360), Dy(-11793203, -15), FromInt(-180), Dy(-10485761, -20),
      FromInt(-10), Zero, Dy(21, -1), FromInt(180), Dy(11793203, -15),
      FromInt(360) }

\* contrast factors of [-1, 1]: a grid with both ends, and floats off it
ContrastFactors ==
    { Dy(k, -GridBits) : k \in (-(2 ^ GridBits))..(2 ^ GridBits) }
        \cup { F0005, NNeg(F0005), F02, Dy(16777215, -24), Dy(-16777215, -24) }

ProbeOf(f, in) == [f |-> f, in |-> in, out |-> <<>>]

Probes ==
    { ProbeOf("quantize", <<b>>) : b \in Bytes }
        \cup { ProbeOf("hsl_identity", <<r, g, b>>) : r \in Levels, g \in Levels, b \in Levels }
        \cup { ProbeOf("zero_factor_byte", <<b>>) : b \in Bytes }
        \cup { ProbeOf("zero_factor", <<v>>) : v \in SmallValues }
        \cup { ProbeOf("enhance_hue", <<h, d>>) : h \in HueValues, d \in HueDeltas }
        \cup { ProbeOf("tan_pos", <<f>>) : f \in ContrastFactors }

InitFn ==
    /\ byte_order \in ByteOrders
    /\ tan_end \in TanEnds
    /\ probe \in Probes
    /\ data = <<>>
    /\ first = <<>>
    /\ old = <<>>
    /\ call = NoCall
    /\ ncalls = 0
    /\ touched = {}
    /\ tan_idx = -1
    /\ ret = "none"
    /\ pending = {}

\* one pixel laid out in the byte order of the build
PixelBytes(r, g, b, a) ==
    [i \in 1..4 |-> IF i - 1 = R_CHANNEL THEN r
                    ELSE IF i - 1 = G_CHANNEL THEN g
                    ELSE IF i - 1 = B_CHANNEL THEN b
                    ELSE a]

Applied(out) ==
    /\ probe.out = <<>>
    /\ probe' = [probe EXCEPT !.out = out]
    /\ UNCHANGED <<byte_order, tan_end, data, first, old, call, ncalls,
                   touched, tan_idx, ret, pending>>

\* normalize a byte, then quantize it with each of the two quantizers
ApplyQuantize ==
    /\ probe.f = "quantize"
    /\ LET v == channel_value(probe.in[1])
       IN  Applied(<<pixel_value(v), manipulate_clamp(v)>>)

\* enhance_hsl_c on one pixel with all three factors 0
ApplyHSLIdentity ==
    /\ probe.f = "hsl_identity"
    /\ LET px == PixelBytes(probe.in[1], probe.in[2], probe.in[3], 255)
           r  == enhance_hsl_c(Memory(px), 4, Zero, Zero, Zero)
       IN  Applied(<<r.mem[R_CHANNEL + 1], r.mem[G_CHANNEL + 1],
                     r.mem[B_CHANNEL + 1], r.mem[ALPHA_CHANNEL + 1]>>)

\* both curves with factor 0 on a normalized byte, the table entry read, and
\* the byte each of the two loops leaves
ApplyZeroFactorByte ==
    /\ probe.f = "zero_factor_byte"
    /\ LET v == channel_value(probe.in[1])
       IN  Applied(<<enhance_brightness(v, Zero), enhance_contrast(v, Zero),
                     TanRead(tan_pos(Zero)),
                     BCByte(probe.in[1], Zero, Zero),
                     ManipulateBCByte(probe.in[1], Zero, Zero)>>)

\* both curves with factor 0 on a float
ApplyZeroFactor ==
    /\ probe.f = "zero_factor"
    /\ Applied(<<enhance_brightness(probe.in[1], Zero),
                 enhance_contrast(probe.in[1], Zero)>>)

ApplyEnhanceHue ==
    /\ probe.f = "enhance_hue"
    /\ Applied(<<enhance_hue(probe.in[1], probe.in[2])>>)

ApplyTanPos ==
    /\ probe.f = "tan_pos"
    /\ Applied(<<tan_pos(probe.in[1])>>)

NextFn ==
    \/ ApplyQuantize
    \/ ApplyHSLIdentity
    \/ ApplyZeroFactorByte
    \/ ApplyZeroFactor
    \/ ApplyEnhanceHue
    \/ ApplyTanPos

SpecFn == InitFn /\ [][NextFn]_vars

(***************************************************************************)
(* Properties of the functions.                                            *)
(***************************************************************************)
AppliedTo(f) == probe.f = f /\ probe.out # <<>>

\* |x - y| <= 2^e
Within(x, y, e) ==
    /\ NLe(NSub(x, y), Dy(1, e))
    /\ NLe(NSub(y, x), Dy(1, e))

\* C4: for every byte b, each of the two quantizers applied to the normalized
\* value b / 255 gives b again.
C4_QuantizeRoundTrip ==
    AppliedTo("quantize") =>
        /\ probe.out[1] = probe.in[1]
        /\ probe.out[2] = probe.in[1]

\* both quantizers were applied to the normalized value of a byte between the
\* ends of the range
C4_Witness ==
    /\ AppliedTo("quantize")
    /\ probe.in[1] \in 1..254
    /\ probe.out = <<probe.in[1], probe.in[1]>>

\* C5: the hue/saturation/lightness transform with all factors 0 gives back
\* R, G and B bytes that each differ from the pixel's by at most 1.
C5_HSLNearIdentity ==
    AppliedTo("hsl_identity") =>
        \A i \in 1..3 : /\ probe.out[i] - probe.in[i] <= 1
                        /\ probe.in[i] - probe.out[i] <= 1

\* the transform ran on a pixel of three different channels and did not give
\* back the very same bytes
C5_Witness ==
    /\ AppliedTo("hsl_identity")
    /\ probe.in[1] # probe.in[2]
    /\ probe.in[2] # probe.in[3]
    /\ probe.in[1] # probe.in[3]
    /\ \E i \in 1..3 : probe.out[i] # probe.in[i]

\* the zero factor on a normalized byte: both curves give the value back, the
\* table entry read is 1, and both loops leave the byte
ZeroFactorOnByte ==
    AppliedTo("zero_factor_byte") =>
        /\ probe.out[1] = channel_value(probe.in[1])
        /\ probe.out[2] = channel_value(probe.in[1])
        /\ probe.out[3] = FromInt(1)
        /\ probe.out[4] = probe.in[1]
        /\ probe.out[5] = probe.in[1]

\* C7 as stated: with factor 0 both curves give back every channel value of
\* [0, 1], the table entry selected is 1, and a transform with brightness 0
\* and contrast 0 leaves every byte as it is.
C7_ZeroFactorIdentity ==
    /\ ZeroFactorOnByte
    /\ AppliedTo("zero_factor") =>
           /\ probe.out[1] = probe.in[1]
           /\ probe.out[2] = probe.in[1]

\* C7, amended: with factor 0 both curves give back every normalized byte
\* exactly, the table entry selected is 1, and a transform with brightness 0
\* and contrast 0 leaves every byte as it is; on any float of [0, 1] the
\* brightness curve is exact and the contrast curve is within 2^-54.
C7_ZeroFactorIdentityOnBytes ==
    /\ ZeroFactorOnByte
    /\ AppliedTo("zero_factor") =>
           /\ probe.out[1] = probe.in[1]
           /\ Within(probe.out[2], probe.in[1], -54)

\* both curves and both loops were applied with factor 0 to a byte between
\* the ends of the range
C7_Witness ==
    /\ AppliedTo("zero_factor_byte")
    /\ probe.in[1] \in 1..254
    /\ probe.out[4] = probe.in[1]

\* C8 as stated: for a hue of [0, 360) and a delta of [-360, 360] the result
\* of enhance_hue is in [0, 360).
C8_HueHalfOpen ==
    AppliedTo("enhance_hue") =>
        /\ NGe(probe.out[1], FromInt(0))
        /\ NLt(probe.out[1], FromInt(360))

\* C8, amended: for a hue of [0, 360) and a delta of [-360, 360] the result
\* of enhance_hue is in the closed range [0, 360]; 360 itself is returned.
C8_HueClosedRange ==
    AppliedTo("enhance_hue") =>
        /\ NGe(probe.out[1], FromInt(0))
        /\ NLe(probe.out[1], FromInt(360))

\* a sum below 0 was wrapped, and came out as 360
C8_Witness ==
    /\ AppliedTo("enhance_hue")
    /\ NLt(NAdd(probe.in[1], probe.in[2]), FromInt(0))
    /\ NEq(probe.out[1], FromInt(360))

\* factor * 127 + 127 as a real number
TanPosExact(factor) == NAdd(NMul(factor, FromInt(127)), FromInt(127))

\* C9 as stated: for a contrast factor of [-1, 1] the table index is
\* factor * 127 + 127 rounded to the nearest integer (the integer part of the
\* sum plus one half), and is in 0..254.
C9_TanIndexRounded ==
    AppliedTo("tan_pos") =>
        /\ probe.out[1] = Trunc(NAdd(TanPosExact(probe.in[1]), Dy(1, -1)))
        /\ probe.out[1] \in 0..(TanEntries - 1)

\* C9, amended: for a contrast factor of [-1, 1] the table index is
\* factor * 127 + 127 with its fraction cut off, the sum taken in float: an
\* integer of 0..254 with index <= x + 2^-15 and x - 2^-15 < index + 1 for
\* the real x = factor * 127 + 127.
C9_TanIndexTruncated ==
    AppliedTo("tan_pos") =>
        /\ probe.out[1] \in 0..(TanEntries - 1)
        /\ NLe(FromInt(probe.out[1]),
               NAdd(TanPosExact(probe.in[1]), Dy(1, -15)))
        /\ NLt(NSub(TanPosExact(probe.in[1]), Dy(1, -15)),
               FromInt(probe.out[1] + 1))

\* the index of a factor whose sum has a fraction of one half or more
C9_Witness ==
    /\ AppliedTo("tan_pos")
    /\ probe.out[1] # Trunc(NAdd(TanPosExact(probe.in[1]), Dy(1, -1)))
    /\ probe.out[1] = Trunc(TanPosExact(probe.in[1]))

(***************************************************************************)
(* A transform split over ranges of whole pixels: a caller hands each      *)
(* range to the transform as the pointer to its first byte and its size,   *)
(* one call per range, the ranges in any order.                            *)
(***************************************************************************)
ChunkBuffers == { b \in Buffers : Len(b) % 4 = 0 /\ Len(b) <= 4 * MaxPixels }

ChunkCalls ==
    { [op |-> "enhance_bc_c", args |-> f] : f \in BCFactors }
        \cup { [op |-> "enhance_hsl_c", args |-> f] : f \in HSLFactors }

InitChunk ==
    /\ byte_order \in ByteOrders
    /\ tan_end \in TanEnds
    /\ data \in ChunkBuffers
    /\ call \in ChunkCalls
    /\ first = data
    /\ old = data
    /\ pending = 0..((Len(data) \div 4) - 1)
    /\ ncalls = 0
    /\ touched = {}
    /\ tan_idx = -1
    /\ ret = "none"
    /\ probe = NoProbe

\* the memory from the first byte of pixel lo on
From(mem, lo) == SubSeq(mem, 4 * lo + 1, Len(mem))

\* the range of the pixels lo..hi-1 is handed over, none of them reached yet
RangeCalled(lo, hi, r) ==
    /\ lo < hi
    /\ lo..(hi - 1) \subseteq pending
    /\ data' = SubSeq(data, 1, 4 * lo) \o SubSeq(r.mem, 1, Len(data) - 4 * lo)
    /\ touched' = { i + 4 * lo : i \in r.acc }
    /\ pending' = pending \ (lo..(hi - 1))
    /\ old' = data
    /\ ncalls' = ncalls + 1
    /\ ret' = "void"
    /\ UNCHANGED <<byte_order, tan_end, first, call, tan_idx, probe>>

\* enhance_bc_c(data + 4 * lo, 4 * (hi - lo), brightness, contrast)
RangeBC(lo, hi) ==
    /\ call.op = "enhance_bc_c"
    /\ RangeCalled(lo, hi, enhance_bc_c(Memory(From(data, lo)), 4 * (hi - lo),
                                        call.args[1], call.args[2]))

\* enhance_hsl_c(data + 4 * lo, 4 * (hi - lo), hue, saturation, lightness)
RangeHSL(lo, hi, tail) ==
    /\ call.op = "enhance_hsl_c"
    /\ RangeCalled(lo, hi, enhance_hsl_c(Memory(From(data \o tail, lo)),
                                         4 * (hi - lo), call.args[1],
                                         call.args[2], call.args[3]))

NextChunk ==
    \/ \E lo \in 0..MaxPixels, hi \in 0..MaxPixels : RangeBC(lo, hi)
    \/ \E lo \in 0..MaxPixels, hi \in 0..MaxPixels, tail \in Tails :
           RangeHSL(lo, hi, tail)

SpecChunk == InitChunk /\ [][NextChunk]_vars

\* the buffer one call of the transform over all of buf leaves
WholeCall(buf) ==
    IF call.op = "enhance_bc_c"
    THEN enhance_bc_c(Memory(buf), Len(buf), call.args[1], call.args[2]).mem
    ELSE SubSeq(enhance_hsl_c(Memory(buf \o <<0, 0, 0>>), Len(buf), call.args[1],
                              call.args[2], call.args[3]).mem,
                1, Len(buf))

\* C10: with a buffer split into ranges of whole pixels and the transform
\* applied to the ranges one by one in any order, every pixel a range call
\* has reached holds what one call over the whole buffer gives it and every
\* other pixel is as it was; with all ranges done the buffer is that of the
\* one whole call.
C10_RangesEqualWhole ==
    \A whole \in { WholeCall(first) } :
        data = [i \in 1..Len(first) |->
                   IF ((i - 1) \div 4) \in pending THEN first[i] ELSE whole[i]]

\* two or more range calls have transformed a whole buffer
C10_Witness ==
    /\ pending = {}
    /\ ncalls >= 2
    /\ call.op = "enhance_hsl_c"
    /\ data # first

====
